---- MODULE Spec2Model ----
(***************************************************************************)
(* DXVK state-cache codec and merge tool.                                  *)
(*                                                                         *)
(* Two programs live in the repository and both are modelled here:         *)
(*   - the library codec of src/src/dxvk.rs (DxvkStateCacheHeader,         *)
(*     DxvkStateCacheEntry, DxvkStateCache with its HashSet<EntryWrapper>),*)
(*     whose strict decoder is DxvkStateCache::from_reader;                *)
(*   - the merge binary of src/src/main.rs (its own header/entry structs,  *)
(*     ReadEx/WriteEx helpers and a LinkedHashMap keyed by the hash).      *)
(* Files are sequences of bytes; every read is modelled at byte level.     *)
(* Definitions of main.rs whose name clashes with one of dxvk.rs carry the *)
(* prefix main_.                                                           *)
(***************************************************************************)
EXTENDS Integers, Sequences, FiniteSets, TLC

VARIABLES
    pc,        \* position of the running program (codec or merge)
    orig,      \* codec: the cache handed to DxvkStateCache::write_to
    stream,    \* codec: the bytes DxvkStateCache::from_reader reads
    pos,       \* end of the last header / entry read whole from the stream
    cache,     \* codec: header and HashSet being built by from_reader
    result,    \* outcome of the operation ("none" while running)
    files,     \* merge: config.files, the contents of the inputs in order
    fileIdx,   \* merge: index of the input being read
    config,    \* merge: Config.version / Config.entry_size
    header,    \* merge: the header of the input being read
    entries,   \* merge: the LinkedHashMap, as its list order
    output,    \* merge: the output file (created flag, bytes written)
    inserted   \* history: accepted entries in the order of acceptance

vars == <<pc, orig, stream, pos, cache, result, files, fileIdx, config,
          header, entries, output, inserted>>

(***************************************************************************)
(* Bounds of the model.                                                    *)
(***************************************************************************)
MaxEntries == 2     \* entries of a cache handed to write_to
MaxInputs == 2      \* input files of one merge run

(***************************************************************************)
(* Program constants (dxvk.rs 31-36, main.rs 10-14).                       *)
(***************************************************************************)
HASH_SIZE == 20
LEGACY_VERSION == 7
MAGIC_STRING == <<68, 88, 86, 75>>
SHA1_EMPTY ==
    <<218, 57, 163, 238, 94, 107, 75, 13, 50, 85,
      191, 239, 149, 96, 24, 144, 175, 216, 7, 9>>

(***************************************************************************)
(* Byte helpers.                                                           *)
(***************************************************************************)
Min(a, b) == IF a < b THEN a ELSE b

Take(s, n) == SubSeq(s, 1, Min(n, Len(s)))

Drop(s, n) == SubSeq(s, n + 1, Len(s))

\* Bytes pos+1 .. pos+n of s (the caller checks that they exist).
Slice(s, p, n) == SubSeq(s, p + 1, p + n)

RECURSIVE SumBytes(_)
SumBytes(s) == IF s = <<>> THEN 0 ELSE Head(s) + SumBytes(Tail(s))

RECURSIVE Concat(_)
Concat(ss) == IF ss = <<>> THEN <<>> ELSE Head(ss) \o Concat(Tail(ss))

\* The digest of the sha1 crate.  SHA-1 itself is not computed: the model
\* keeps what the program relies on, a deterministic function from byte
\* strings of any length to HASH_SIZE bytes, which (like SHA-1) is not
\* injective: here two strings with the same length and byte sum collide.
Sha1(bytes) ==
    LET s == (SumBytes(bytes) + 7 * Len(bytes)) % 256
    IN  [i \in 1..HASH_SIZE |-> (s + 13 * i) % 256]

\* byteorder write_u32 / write_u24 and main.rs WriteEx, little-endian host.
write_u32(n) ==
    <<n % 256, (n \div 256) % 256, (n \div 65536) % 256,
      (n \div 16777216) % 256>>

write_u24(n) == <<n % 256, (n \div 256) % 256, (n \div 65536) % 256>>

write_u8(n) == <<n % 256>>

\* The value of a little-endian byte buffer (read_u32 / read_u24).
LeValue(b) ==
    (IF Len(b) >= 1 THEN b[1] ELSE 0)
    + (IF Len(b) >= 2 THEN b[2] * 256 ELSE 0)
    + (IF Len(b) >= 3 THEN b[3] * 65536 ELSE 0)
    + (IF Len(b) >= 4 THEN b[4] * 16777216 ELSE 0)

(***************************************************************************)
(* Values.                                                                 *)
(***************************************************************************)
NoEntryHeader == [present |-> FALSE, stage_mask |-> 0, entry_size |-> 0]

EntryHeader(mask, size) ==
    [present |-> TRUE, stage_mask |-> mask, entry_size |-> size]

NoEntry == [header |-> NoEntryHeader, hash |-> <<>>, data |-> <<>>]

NoHeader == [magic |-> <<>>, version |-> 0, entry_size |-> 0]

Hashes(es) == [i \in 1..Len(es) |-> es[i].hash]

DistinctHashes(es) ==
    \A i, j \in 1..Len(es) : i # j => es[i].hash # es[j].hash

(***************************************************************************)
(* dxvk.rs: file header.                                                   *)
(***************************************************************************)
edition(h) == IF h.version > LEGACY_VERSION THEN "Standard" ELSE "Legacy"

DxvkStateCacheHeader_write_to(h) ==
    MAGIC_STRING \o write_u32(h.version) \o write_u32(h.entry_size)

\* read_exact / byteorder reads fail with UnexpectedEof when the bytes are
\* not all there; the magic is compared before the version is read.
DxvkStateCacheHeader_from_reader(bytes) ==
    IF Len(bytes) < 4
    THEN [kind |-> "UnexpectedEof", header |-> NoHeader, pos |-> Len(bytes)]
    ELSE IF Slice(bytes, 0, 4) # MAGIC_STRING
    THEN [kind |-> "MagicStringMismatch", header |-> NoHeader, pos |-> 4]
    ELSE IF Len(bytes) < 8
    THEN [kind |-> "UnexpectedEof", header |-> NoHeader, pos |-> Len(bytes)]
    ELSE IF LeValue(Slice(bytes, 4, 4)) = 0
    THEN [kind |-> "InvalidVersion", header |-> NoHeader, pos |-> 8]
    ELSE IF Len(bytes) < 12
    THEN [kind |-> "UnexpectedEof", header |-> NoHeader, pos |-> Len(bytes)]
    ELSE [kind |-> "Ok",
          header |-> [magic |-> Slice(bytes, 0, 4),
                      version |-> LeValue(Slice(bytes, 4, 4)),
                      entry_size |-> LeValue(Slice(bytes, 8, 4))],
          pos |-> 12]

(***************************************************************************)
(* dxvk.rs: entries.                                                       *)
(***************************************************************************)
is_valid(e) ==
    LET hash == IF ~e.header.present
                THEN Sha1(e.data \o SHA1_EMPTY)
                ELSE Sha1(e.data)
    IN  hash = e.hash

\* with_length subtracts HASH_SIZE from a usize: for length < HASH_SIZE the
\* debug build panics on the subtraction and the release build wraps and
\* panics in vec! (capacity overflow); both builds end in a panic.
from_reader_legacy(bytes, p, size) ==
    IF size < HASH_SIZE
    THEN [kind |-> "Panic", entry |-> NoEntry, pos |-> p]
    ELSE LET n == size - HASH_SIZE IN
         IF p + n + HASH_SIZE > Len(bytes)
         THEN [kind |-> "UnexpectedEof", entry |-> NoEntry, pos |-> p]
         ELSE [kind |-> "Ok",
               entry |-> [header |-> NoEntryHeader,
                          hash |-> Slice(bytes, p + n, HASH_SIZE),
                          data |-> Slice(bytes, p, n)],
               pos |-> p + n + HASH_SIZE]

from_reader_standard(bytes, p) ==
    IF p + 4 > Len(bytes)
    THEN [kind |-> "UnexpectedEof", entry |-> NoEntry, pos |-> p]
    ELSE LET size == LeValue(Slice(bytes, p + 1, 3)) IN
         IF p + 4 + HASH_SIZE + size > Len(bytes)
         THEN [kind |-> "UnexpectedEof", entry |-> NoEntry, pos |-> p]
         ELSE [kind |-> "Ok",
               entry |-> [header |-> EntryHeader(bytes[p + 1], size),
                          hash |-> Slice(bytes, p + 4, HASH_SIZE),
                          data |-> Slice(bytes, p + 4 + HASH_SIZE, size)],
               pos |-> p + 4 + HASH_SIZE + size]

from_reader(bytes, p, top_header) ==
    LET ret == IF edition(top_header) = "Standard"
               THEN from_reader_standard(bytes, p)
               ELSE from_reader_legacy(bytes, p, top_header.entry_size)
    IN  IF ret.kind # "Ok" THEN ret
        ELSE IF ~is_valid(ret.entry)
        THEN [kind |-> "HashMismatch", entry |-> NoEntry, pos |-> p]
        ELSE ret

DxvkStateCacheEntryHeader_write_to(h) ==
    write_u8(h.stage_mask) \o write_u24(h.entry_size)

write_standard(e) ==
    (IF e.header.present THEN DxvkStateCacheEntryHeader_write_to(e.header)
     ELSE <<>>)
    \o e.hash \o e.data

write_legacy(e) == e.hash \o e.data

write_to(e, ed) ==
    IF ed = "Legacy" THEN write_legacy(e) ELSE write_standard(e)

(***************************************************************************)
(* dxvk.rs: the cache container.                                           *)
(*                                                                         *)
(* HashSet<EntryWrapper> is modelled by the sequence of its elements in    *)
(* iteration order.  EntryWrapper hashes the payload (impl Hash) and       *)
(* compares the 20-byte hash field (impl PartialEq): a lookup finds a      *)
(* stored element only among those the hasher sends to the same probe      *)
(* sequence, and then compares the hash fields.  Equal payloads always     *)
(* probe together; different payloads do so only when the randomly keyed   *)
(* SipHash values happen to meet (parameter collide).                      *)
(***************************************************************************)
HashSetFinds(set, e, collide) ==
    \E i \in 1..Len(set) :
        /\ set[i].data = e.data \/ collide
        /\ set[i].hash = e.hash

\* The set after a successful insert: the slot of the new element depends
\* on the hasher's random keys, so it may come anywhere in iteration order.
InsertAt(set, at, e) == SubSeq(set, 1, at) \o <<e>> \o SubSeq(set, at + 1, Len(set))

\* write_to with the emptiness check after the header write.
DxvkStateCache_write_to_late_check(c) ==
    IF Len(c.entries) < 1
    THEN [ok |-> FALSE, bytes |-> DxvkStateCacheHeader_write_to(c.header)]
    ELSE [ok |-> TRUE,
          bytes |-> DxvkStateCacheHeader_write_to(c.header)
                    \o Concat([i \in 1..Len(c.entries) |->
                                  write_to(c.entries[i], edition(c.header))])]

\* DxvkStateCache::write_to: refuses an empty cache before any byte is
\* written, else the header and then every entry in iteration order.
DxvkStateCache_write_to(c) ==
    IF Len(c.entries) < 1
    THEN [ok |-> FALSE, bytes |-> <<>>]
    ELSE [ok |-> TRUE,
          bytes |-> DxvkStateCacheHeader_write_to(c.header)
                    \o Concat([i \in 1..Len(c.entries) |->
                                  write_to(c.entries[i], edition(c.header))])]

\* DxvkStateCache::iter.
iter(c) == c.entries

NoCache == [header |-> NoHeader, entries |-> <<>>]

NoOutput == [created |-> FALSE, bytes |-> <<>>]

(***************************************************************************)
(* Codec program: write_to of a cache built by the caller, then            *)
(* DxvkStateCache::from_reader on the bytes (or on a given file), then     *)
(* write_to of the decoded cache.                                          *)
(***************************************************************************)
MergeIdle ==
    /\ files = <<>>
    /\ fileIdx = 0
    /\ config = [version |-> 0, entry_size |-> 0]
    /\ header = NoHeader
    /\ entries = <<>>

Encode ==
    /\ pc = "write"
    /\ LET w == DxvkStateCache_write_to(orig) IN
       IF w.ok
       THEN /\ stream' = w.bytes
            /\ pc' = "read_header"
            /\ result' = result
       ELSE /\ stream' = w.bytes
            /\ pc' = "error"
            /\ result' = "NoEntriesToWrite"
    /\ UNCHANGED <<orig, pos, cache, files, fileIdx, config, header, entries,
                   output, inserted>>

\* from_reader, lines 328-329: the empty set and the header.
DecodeHeader ==
    /\ pc = "read_header"
    /\ LET r == DxvkStateCacheHeader_from_reader(stream) IN
       /\ pos' = r.pos
       /\ IF r.kind = "Ok"
          THEN /\ cache' = [header |-> r.header, entries |-> <<>>]
               /\ pc' = "read_entry"
               /\ result' = result
          ELSE /\ cache' = cache
               /\ pc' = "error"
               /\ result' = r.kind
    /\ UNCHANGED <<orig, stream, files, fileIdx, config, header, entries,
                   output, inserted>>

\* from_reader, lines 330-346: one turn of the while loop.  try_read_entry
\* turns every UnexpectedEof of the entry read into Ok(None), which ends
\* the loop and returns the cache.
DecodeEntry ==
    /\ pc = "read_entry"
    /\ LET r == from_reader(stream, pos, cache.header) IN
       /\ pos' = r.pos
       /\ CASE r.kind = "Ok" ->
                 \E collide \in BOOLEAN, at \in 0..Len(cache.entries) :
                     IF HashSetFinds(cache.entries, r.entry, collide)
                     THEN /\ pc' = "error"
                          /\ result' = "DuplicateEntry"
                          /\ UNCHANGED <<cache, inserted>>
                     ELSE /\ cache' = [cache EXCEPT
                                 !.entries = InsertAt(@, at, r.entry)]
                          /\ inserted' = Append(inserted, r.entry)
                          /\ UNCHANGED <<pc, result>>
            [] r.kind = "UnexpectedEof" ->
                 /\ pc' = "done"
                 /\ result' = "Ok"
                 /\ UNCHANGED <<cache, inserted>>
            [] OTHER ->
                 /\ pc' = "error"
                 /\ result' = r.kind
                 /\ UNCHANGED <<cache, inserted>>
    /\ UNCHANGED <<orig, stream, files, fileIdx, config, header, entries,
                   output>>

\* The decoded cache is written again (the rewrite of a file).
Rewrite ==
    /\ pc = "done"
    /\ LET w == DxvkStateCache_write_to(cache) IN
       /\ output' = [created |-> w.ok, bytes |-> w.bytes]
       /\ pc' = IF w.ok THEN "rewritten" ELSE "error"
       /\ result' = IF w.ok THEN "Ok" ELSE "NoEntriesToWrite"
    /\ UNCHANGED <<orig, stream, pos, cache, files, fileIdx, config, header,
                   entries, inserted>>

(***************************************************************************)
(* main.rs: ReadEx / WriteEx and the readers and writers of the merge.     *)
(*                                                                         *)
(* The inputs of the model are shorter than the buffer of BufReader, so    *)
(* the first fill holds the whole file: Read::read then hands out the      *)
(* bytes asked for, or the fewer that are left, and never fails;           *)
(* read_exact fails (io::Error -> ErrorKind::IoError) when fewer are left. *)
(* (In a longer file read also hands out fewer bytes than asked for when   *)
(* the buffer runs empty inside a field; no input of the model is that     *)
(* long.)                                                                  *)
(***************************************************************************)
\* ReadEx::read_u32 / read_u24 / read_u8: the result of read is ignored, the
\* buffer starts as zeros and the value is taken from it whatever was read.
main_read(bytes, p, n) ==
    LET k == Min(n, Len(bytes) - p)
    IN  [buf |-> Slice(bytes, p, k) \o [i \in 1..(n - k) |-> 0], pos |-> p + k]

read_u32(bytes, p) ==
    LET r == main_read(bytes, p, 4) IN [value |-> LeValue(r.buf), pos |-> r.pos]

read_u24(bytes, p) ==
    LET r == main_read(bytes, p, 3) IN [value |-> LeValue(r.buf), pos |-> r.pos]

read_u8(bytes, p) ==
    LET r == main_read(bytes, p, 1) IN [value |-> r.buf[1], pos |-> r.pos]

read_header(bytes) ==
    IF Len(bytes) < 4
    THEN [kind |-> "IoError", header |-> NoHeader, pos |-> Len(bytes)]
    ELSE LET version == read_u32(bytes, 4)
             entry_size == read_u32(bytes, version.pos)
         IN  [kind |-> "Ok",
              header |-> [magic |-> Slice(bytes, 0, 4),
                          version |-> version.value,
                          entry_size |-> entry_size.value],
              pos |-> entry_size.pos]

read_entry(bytes, p) ==
    LET stage_mask == read_u8(bytes, p)
        entry_size == read_u24(bytes, stage_mask.pos)
        q == entry_size.pos
    IN  IF q + HASH_SIZE + entry_size.value > Len(bytes)
        THEN [kind |-> "IoError", entry |-> NoEntry, pos |-> p]
        ELSE [kind |-> "Ok",
              entry |-> [header |-> EntryHeader(stage_mask.value, entry_size.value),
                         hash |-> Slice(bytes, q, HASH_SIZE),
                         data |-> Slice(bytes, q + HASH_SIZE, entry_size.value)],
              pos |-> q + HASH_SIZE + entry_size.value]

read_entry_legacy(bytes, p, size) ==
    IF p + size + HASH_SIZE > Len(bytes)
    THEN [kind |-> "IoError", entry |-> NoEntry, pos |-> p]
    ELSE [kind |-> "Ok",
          entry |-> [header |-> NoEntryHeader,
                     hash |-> Slice(bytes, p + size, HASH_SIZE),
                     data |-> Slice(bytes, p, size)],
          pos |-> p + size + HASH_SIZE]

\* main_is_valid without the comparison: every entry passes.
main_is_valid_unchecked(e, legacy) ==
    LET hash == e.hash   \* self.hash == self.hash
    IN  hash = e.hash

main_is_valid(e, legacy) ==
    LET hash == IF legacy THEN Sha1(e.data \o SHA1_EMPTY) ELSE Sha1(e.data)
    IN  hash = e.hash

wrtie_header(version, entry_size) ==
    MAGIC_STRING \o write_u32(version) \o write_u32(entry_size)

write_state_cache(es) ==
    Concat([i \in 1..Len(es) |->
               (IF es[i].header.present
                THEN write_u8(es[i].header.stage_mask)
                     \o write_u24(es[i].header.entry_size)
                ELSE <<>>)
               \o es[i].hash \o es[i].data])

write_state_cache_legacy(es) ==
    Concat([i \in 1..Len(es) |-> es[i].data \o es[i].hash])

\* LinkedHashMap::insert of the linked-hash-map crate: a new key is linked
\* at the back of the list; for a key that is already there the value is
\* replaced and the node is detached and attached again at the back.
RemoveAt(list, i) == SubSeq(list, 1, i - 1) \o SubSeq(list, i + 1, Len(list))

LinkedHashMap_insert(list, k, v) ==
    IF \E i \in 1..Len(list) : list[i].hash = k
    THEN LET i == CHOOSE j \in 1..Len(list) : list[j].hash = k
         IN  Append(RemoveAt(list, i), v)
    ELSE Append(list, v)

(***************************************************************************)
(* Merge program: main of main.rs.                                         *)
(***************************************************************************)
CodecIdle ==
    /\ orig = NoCache
    /\ stream = <<>>
    /\ cache = NoCache

MergeFail(kind) ==
    /\ pc' = "m_error"
    /\ result' = kind

\* main, lines 221-247: open the input, read its header, check the magic,
\* take version and entry_size from the header while config.version is 0,
\* compare the versions.
OpenInput ==
    /\ pc = "m_open"
    /\ LET r == read_header(files[fileIdx])
           cfg == IF config.version = 0
                  THEN [version |-> r.header.version,
                        entry_size |-> r.header.entry_size]
                  ELSE config
       IN  IF r.kind # "Ok"
           THEN MergeFail("IoError") /\ UNCHANGED <<config, header, pos>>
           ELSE IF r.header.magic # MAGIC_STRING
           THEN MergeFail("MagicStringMismatch")
                /\ UNCHANGED <<config, header, pos>>
           ELSE /\ config' = cfg
                /\ IF r.header.version # cfg.version
                   THEN MergeFail("VersionMismatch")
                        /\ UNCHANGED <<header, pos>>
                   ELSE /\ pc' = "m_entry"
                        /\ header' = r.header
                        /\ pos' = r.pos
                        /\ result' = result
    /\ UNCHANGED <<orig, stream, cache, files, fileIdx, entries, output,
                   inserted>>

\* main, lines 250-271: one turn of the entry loop.  The Legacy payload size
\* is header.entry_size as usize - HASH_SIZE: below HASH_SIZE the debug build
\* panics on the subtraction and the release build wraps and panics in vec!.
\* Any IoError leaves the loop and goes on with the next input.
ReadInputEntry ==
    /\ pc = "m_entry"
    /\ LET legacy == header.version < 8 IN
       IF legacy /\ header.entry_size < HASH_SIZE
       THEN MergeFail("Panic")
            /\ UNCHANGED <<pos, entries, inserted, fileIdx>>
       ELSE LET res == IF legacy
                       THEN read_entry_legacy(files[fileIdx], pos,
                                              header.entry_size - HASH_SIZE)
                       ELSE read_entry(files[fileIdx], pos)
            IN  IF res.kind = "Ok"
                THEN /\ pos' = res.pos
                     /\ IF main_is_valid(res.entry, legacy)
                        THEN /\ entries' = LinkedHashMap_insert(
                                               entries, res.entry.hash, res.entry)
                             /\ inserted' = Append(inserted, res.entry)
                        ELSE UNCHANGED <<entries, inserted>>
                     /\ UNCHANGED <<pc, result, fileIdx>>
                ELSE /\ pos' = res.pos
                     /\ IF fileIdx < Len(files)
                        THEN /\ fileIdx' = fileIdx + 1
                             /\ pc' = "m_open"
                        ELSE /\ fileIdx' = fileIdx
                             /\ pc' = "m_finish"
                     /\ UNCHANGED <<result, entries, inserted>>
    /\ UNCHANGED <<orig, stream, cache, files, config, header, output>>

\* main, lines 275-295: refuse an empty map, else create the output and
\* write the header of the first input and the entries in list order.
WriteOutput ==
    /\ pc = "m_finish"
    /\ IF entries = <<>>
       THEN MergeFail("NoEntriesFound") /\ output' = output
       ELSE /\ output' =
                [created |-> TRUE,
                 bytes |-> wrtie_header(config.version, config.entry_size)
                           \o (IF config.version >= 8
                               THEN write_state_cache(entries)
                               ELSE write_state_cache_legacy(entries))]
            /\ pc' = "m_done"
            /\ result' = "Ok"
    /\ UNCHANGED <<orig, stream, pos, cache, files, fileIdx, config, header,
                   entries, inserted>>

(***************************************************************************)
(* Inputs of the model.                                                    *)
(***************************************************************************)
StandardEntry(mask, data) ==
    [header |-> EntryHeader(mask, Len(data)), hash |-> Sha1(data), data |-> data]

LegacyEntry(data) ==
    [header |-> NoEntryHeader, hash |-> Sha1(data \o SHA1_EMPTY), data |-> data]

\* An entry whose first hash byte was changed on disk.
Corrupt(e) == [e EXCEPT !.hash = [@ EXCEPT ![1] = (@ + 1) % 256]]

X == StandardEntry(5, <<1>>)
Y == StandardEntry(0, <<2>>)
Z == StandardEntry(255, <<3>>)
X2 == StandardEntry(7, <<1>>)      \* the payload of X under another mask
U == StandardEntry(2, <<1, 2>>)
V == StandardEntry(3, <<2, 1>>)    \* another payload with the digest of U
E == StandardEntry(1, <<>>)

StandardEntries == {X, Y, Z, U, V, E}

DataPool == {<<>>, <<1>>, <<2>>, <<3>>, <<1, 2>>, <<2, 1>>}

LegacyEntries(size) ==
    {LegacyEntry(d) : d \in {x \in DataPool : Len(x) + HASH_SIZE = size}}

HeaderPool ==
    {[magic |-> MAGIC_STRING, version |-> v[1], entry_size |-> v[2]] :
        v \in {<<1, 20>>, <<7, 21>>, <<7, 22>>, <<8, 0>>, <<9, 24>>}}

SeqsUpTo(S, n) == UNION {[1..k -> S] : k \in 0..n}

EntriesFor(h) ==
    IF edition(h) = "Standard" THEN StandardEntries
    ELSE LegacyEntries(h.entry_size)

\* Caches a caller can hand to write_to: entries valid for the edition of
\* the header, of the payload size the header states (Legacy), no hash
\* twice, in any iteration order of the HashSet.
CachesOf(h) ==
    {[header |-> h, entries |-> es] :
        es \in {s \in SeqsUpTo(EntriesFor(h), MaxEntries) : DistinctHashes(s)}}

CachePool == UNION {CachesOf(h) : h \in HeaderPool}

\* A file as DXVK lays it out (the writers of main.rs).
FileOf(version, entry_size, es) ==
    wrtie_header(version, entry_size)
    \o (IF version >= 8 THEN write_state_cache(es)
        ELSE write_state_cache_legacy(es))

\* A file that lost its last cut bytes.
Truncated(file, cut) == Take(file, Len(file) - cut)

P == LegacyEntry(<<1>>)
Q == LegacyEntry(<<2>>)
R == LegacyEntry(<<3>>)
S == LegacyEntry(<<1, 2>>)

FileA8 == FileOf(8, 0, <<X, Y>>)
FileB8 == FileOf(8, 0, <<Y, Z>>)
FileC8 == FileOf(8, 0, <<X, Corrupt(Y), Z>>)
FileA7 == FileOf(7, 21, <<P, Q>>)
FileB7 == FileOf(7, 21, <<Q, R>>)
FileC7 == FileOf(7, 21, <<P, Corrupt(Q), R>>)
FileD7 == FileOf(7, 22, <<S>>)

FilePool ==
    { FileA8, FileB8, FileC8,
      FileOf(8, 0, <<>>),                    \* header only
      FileOf(7, 21, <<>>),                   \* header only, Legacy
      FileOf(9, 0, <<X>>),
      FileOf(8, 0, <<U, V>>),                \* two payloads, one digest
      FileOf(8, 0, <<X, X2, Z>>),            \* one payload twice
      Truncated(FileA8, 1),                  \* cut inside the payload
      Truncated(FileA8, 10),                 \* cut inside the hash
      Truncated(FileA8, 23),                 \* cut inside the entry header
      FileA7, FileB7, FileC7, FileD7,
      FileOf(7, 20, <<LegacyEntry(<<>>)>>),  \* empty Legacy payload
      FileOf(7, 19, <<P>>),                  \* entry_size below HASH_SIZE
      FileOf(6, 21, <<P>>),
      FileOf(0, 21, <<P>>),                  \* version field 0
      Truncated(FileA7, 5),                  \* cut inside the hash
      <<68, 88, 86, 76>> \o Drop(FileA8, 4), \* wrong magic
      Truncated(FileOf(8, 0, <<>>), 6) }     \* cut inside the header

InputLists == UNION {[1..n -> FilePool] : n \in 1..MaxInputs}

(***************************************************************************)
(* The specification: either the codec program or the merge program runs.  *)
(***************************************************************************)
InitCodec ==
    /\ \/ /\ pc = "write"
          /\ orig \in CachePool
          /\ stream = <<>>
       \/ /\ pc = "read_header"
          /\ orig = NoCache
          /\ stream \in FilePool
    /\ pos = 0
    /\ cache = NoCache
    /\ result = "none"
    /\ MergeIdle
    /\ output = NoOutput
    /\ inserted = <<>>

InitMerge ==
    /\ pc = "m_open"
    /\ files \in InputLists
    /\ fileIdx = 1
    /\ config = [version |-> 0, entry_size |-> 0]
    /\ header = NoHeader
    /\ entries = <<>>
    /\ pos = 0
    /\ result = "none"
    /\ CodecIdle
    /\ output = NoOutput
    /\ inserted = <<>>

Init == InitCodec \/ InitMerge

Next ==
    \/ Encode
    \/ DecodeHeader
    \/ DecodeEntry
    \/ Rewrite
    \/ OpenInput
    \/ ReadInputEntry
    \/ WriteOutput

Spec == Init /\ [][Next]_vars

(***************************************************************************)
(* Helpers of the properties.                                              *)
(***************************************************************************)
Range(s) == {s[i] : i \in 1..Len(s)}

Codec == pc \in {"write", "read_header", "read_entry", "done", "rewritten", "error"}

Merge == pc \in {"m_open", "m_entry", "m_finish", "m_done", "m_error"}

\* The entries of s whose hash did not occur earlier in s.
RECURSIVE FirstOccurrences(_)
FirstOccurrences(s) ==
    IF s = <<>> THEN <<>>
    ELSE LET front == FirstOccurrences(SubSeq(s, 1, Len(s) - 1))
             last == s[Len(s)]
         IN  IF \E i \in 1..(Len(s) - 1) : s[i].hash = last.hash
             THEN front
             ELSE Append(front, last)

\* H of the spec: the digest an entry must carry in a cache with header h.
H(h, e) == IF h.version >= 8 THEN Sha1(e.data) ELSE Sha1(e.data \o SHA1_EMPTY)

(***************************************************************************)
(* C1: round trip.  For every non-empty cache of valid entries, Legacy or  *)
(* Standard, write_to followed by from_reader succeeds and yields the same *)
(* header and the same entries.                                            *)
(***************************************************************************)
C1_RoundTrip ==
    (orig # NoCache /\ orig.entries # <<>>) =>
        /\ pc # "error"
        /\ pc \in {"done", "rewritten"} =>
              /\ cache.header = orig.header
              /\ Len(cache.entries) = Len(orig.entries)
              /\ Range(cache.entries) = Range(orig.entries)

\* The same statement for the Standard edition alone, which the code keeps.
C1_RoundTripStandard ==
    (orig # NoCache /\ orig.entries # <<>> /\ edition(orig.header) = "Standard") =>
        /\ pc # "error"
        /\ pc \in {"done", "rewritten"} =>
              /\ cache.header = orig.header
              /\ Len(cache.entries) = Len(orig.entries)
              /\ Range(cache.entries) = Range(orig.entries)

(***************************************************************************)
(* C2: insertion order.  Iterating a cache and writing it visit the        *)
(* entries in the order in which each distinct hash was first inserted.    *)
(***************************************************************************)
C2_InsertionOrder ==
    /\ Codec => iter(cache) = FirstOccurrences(inserted)
    /\ pc = "rewritten" =>
          output.bytes = DxvkStateCache_write_to(
              [header |-> cache.header,
               entries |-> FirstOccurrences(inserted)]).bytes
    /\ Merge => entries = FirstOccurrences(inserted)
    /\ pc = "m_done" =>
          output.bytes = FileOf(config.version, config.entry_size,
                                FirstOccurrences(inserted))

(***************************************************************************)
(* C3: silent dedup of merge.  When the merge loop meets a valid entry     *)
(* whose hash is already in the collection, the collection is unchanged:   *)
(* the entry is discarded, the earlier one neither moved nor replaced.     *)
(***************************************************************************)
C3_SilentDedupKeepsPosition ==
    [][(/\ pc = "m_entry"
        /\ Len(inserted') = Len(inserted) + 1
        /\ inserted'[Len(inserted')].hash \in Range(Hashes(entries)))
       => entries' = entries]_vars

\* The scenario of the spec: Merge(A, B) writes X, Y, Z and Merge(B, A)
\* writes Y, Z, X.
C3_MergeScenario ==
    /\ (pc = "m_done" /\ files = <<FileA8, FileB8>>)
          => output.bytes = FileOf(8, 0, <<X, Y, Z>>)
    /\ (pc = "m_done" /\ files = <<FileB8, FileA8>>)
          => output.bytes = FileOf(8, 0, <<Y, Z, X>>)

(***************************************************************************)
(* C4: uniqueness by hash.  In every state of a cache built by strict      *)
(* decode or by the merge loop no two stored entries have the same hash.   *)
(***************************************************************************)
C4_UniqueByHash ==
    /\ DistinctHashes(cache.entries)
    /\ DistinctHashes(entries)

\* The part of C4 that the map of the merge keeps.
C4_MergeUniqueByHash == DistinctHashes(entries)

(***************************************************************************)
(* C5: end of stream.  When the read of an entry meets the end of the      *)
(* stream, decoding ends successfully if and only if the stream ended at   *)
(* the entry boundary; after at least one byte of an entry the operation   *)
(* returns an error (no cache, no output written).                         *)
(***************************************************************************)
C5_EofOnlyAtBoundary ==
    [][/\ (pc = "read_entry"
           /\ from_reader(stream, pos, cache.header).kind = "UnexpectedEof")
          => (pc' = "done" <=> pos = Len(stream))
       /\ (pc = "m_entry" /\ pc' \in {"m_open", "m_finish"})
          => pos = Len(files[fileIdx])]_vars

(***************************************************************************)
(* C6: integrity.  Every entry stored in a cache by strict decode or by    *)
(* merge carries hash = H(entry) for the edition of the cache's header     *)
(* (for the merge: the header it writes, config.version).                  *)
(***************************************************************************)
C6_Integrity ==
    /\ \A i \in 1..Len(cache.entries) :
           cache.entries[i].hash = H(cache.header, cache.entries[i])
    /\ \A i \in 1..Len(entries) : entries[i].hash = H(config, entries[i])

\* The part of C6 that strict decode keeps.
C6_StrictIntegrity ==
    \A i \in 1..Len(cache.entries) :
        cache.entries[i].hash = H(cache.header, cache.entries[i])

(***************************************************************************)
(* C7: merge rejects mixed versions.  No input after the first is read     *)
(* past its header when its version differs from the version of the first  *)
(* input, whatever that version is, and a failed merge creates no output.  *)
(***************************************************************************)
C7_MixedVersionsRejected ==
    /\ (pc = "m_entry" /\ fileIdx > 1)
          => header.version = read_header(files[1]).header.version
    /\ pc = "m_error" => output = NoOutput

\* The part of C7 that the code keeps: a failed merge creates no output.
C7_NoOutputOnFailure == pc = "m_error" => output = NoOutput

(***************************************************************************)
(* C8: header validation.  On both entry points a header is accepted only  *)
(* with magic "DXVK" and a version other than 0, so every cache in memory  *)
(* and every file written has that magic and a non-zero version.           *)
(***************************************************************************)
C8_HeaderValidated ==
    /\ pc \in {"read_entry", "done", "rewritten"} =>
          /\ cache.header.magic = MAGIC_STRING
          /\ cache.header.version # 0
    /\ pc = "m_entry" =>
          /\ header.magic = MAGIC_STRING
          /\ header.version # 0
    /\ pc = "m_done" =>
          /\ Slice(output.bytes, 0, 4) = MAGIC_STRING
          /\ LeValue(Slice(output.bytes, 4, 4)) # 0

\* The part of C8 that the code keeps: strict decode, and the magic in merge.
C8_StrictHeaderValidated ==
    /\ pc \in {"read_entry", "done", "rewritten"} =>
          /\ cache.header.magic = MAGIC_STRING
          /\ cache.header.version # 0
    /\ pc = "m_entry" => header.magic = MAGIC_STRING
    /\ pc = "m_done" => Slice(output.bytes, 0, 4) = MAGIC_STRING

(***************************************************************************)
(* C9: Legacy payload size.  In every Legacy cache the merge writes, each  *)
(* entry's data length is the written header's entry_size minus HASH_SIZE  *)
(* and no entry carries a per-entry header.                                *)
(***************************************************************************)
C9_LegacyPayloadSize ==
    (pc = "m_done" /\ config.version <= 7) =>
        \A i \in 1..Len(entries) :
            /\ Len(entries[i].data) = config.entry_size - HASH_SIZE
            /\ ~entries[i].header.present

\* C9 for the inputs the claim names: several inputs of one Legacy version.
C9_SameVersionInputs ==
    (/\ pc = "m_done"
     /\ \A i \in 1..Len(files) : read_header(files[i]).header.version = 7)
    => \A i \in 1..Len(entries) :
           Len(entries[i].data) = config.entry_size - HASH_SIZE

(***************************************************************************)
(* C10: hash-mismatch policy.  An entry read whole from the stream whose   *)
(* hash is not H(entry) for the edition of the stream's header is omitted  *)
(* by the merge, which goes on with the bytes after it (and so with the    *)
(* following entries and inputs); DxvkStateCache::from_reader aborts with  *)
(* HashMismatch and returns no cache.  A Standard file of three entries    *)
(* with one corrupted hash gives the merge exactly the two valid entries.  *)
(***************************************************************************)
\* The entry the merge reads next from the current input, before validation.
NextInputEntry ==
    IF header.version < 8
    THEN read_entry_legacy(files[fileIdx], pos, header.entry_size - HASH_SIZE)
    ELSE read_entry(files[fileIdx], pos)

\* The entry the strict decoder reads next, before validation.
NextStreamEntry ==
    IF edition(cache.header) = "Standard"
    THEN from_reader_standard(stream, pos)
    ELSE from_reader_legacy(stream, pos, cache.header.entry_size)

MergeMeetsMismatch ==
    /\ pc = "m_entry"
    /\ ~(header.version < 8 /\ header.entry_size < HASH_SIZE)
    /\ NextInputEntry.kind = "Ok"
    /\ NextInputEntry.entry.hash # H(header, NextInputEntry.entry)

StrictMeetsMismatch ==
    /\ pc = "read_entry"
    /\ NextStreamEntry.kind = "Ok"
    /\ NextStreamEntry.entry.hash # H(cache.header, NextStreamEntry.entry)

\* C10: the merge omits an entry that fails the integrity check and reads
\* on; strict decode aborts with HashMismatch; the three-entry files with
\* one corrupted hash contribute exactly their two valid entries.
C10_HashMismatchPolicy ==
    /\ [][/\ MergeMeetsMismatch =>
                /\ entries' = entries
                /\ pc' = "m_entry"
                /\ fileIdx' = fileIdx
                /\ pos' = NextInputEntry.pos
                /\ result' = "none"
          /\ StrictMeetsMismatch =>
                /\ pc' = "error"
                /\ result' = "HashMismatch"]_vars
    /\ [](/\ (files = <<FileC8>> /\ pc = "m_done") => entries = <<X, Z>>
          /\ (files = <<FileC7>> /\ pc = "m_done") => entries = <<P, R>>
          /\ (files = <<FileC8, FileB8>> /\ pc = "m_done")
                => Range(entries) = {X, Y, Z}
          /\ stream \in {FileC8, FileC7} => pc \notin {"done", "rewritten"})

\* Merge has written the two valid entries of the three-entry file whose
\* second hash is corrupted.
C10_Witness ==
    /\ files = <<FileC8>>
    /\ pc = "m_done"
    /\ entries = <<X, Z>>
    /\ output.bytes = FileOf(8, 0, <<X, Z>>)

\* Strict decode of the same file has aborted with HashMismatch.
C10_WitnessStrict ==
    /\ stream = FileC8
    /\ pc = "error"
    /\ result = "HashMismatch"

(***************************************************************************)
(* C11: empty caches are never written.  DxvkStateCache::write_to on a     *)
(* cache without entries returns an error before any byte reaches the      *)
(* writer; a merge that has read all its inputs and holds no valid entry   *)
(* fails with NoEntriesFound and creates no output; a file that is only a  *)
(* header (a header the decoder accepts, with entry_size >= HASH_SIZE when *)
(* Legacy) decodes successfully to an empty cache.                         *)
(***************************************************************************)
HeaderOnly ==
    /\ pc = "read_entry"
    /\ pos = Len(stream)
    /\ cache.entries = <<>>
    /\ edition(cache.header) = "Legacy" => cache.header.entry_size >= HASH_SIZE

C11_WitnessMerge ==
    /\ files = <<FileOf(8, 0, <<>>)>>
    /\ pc = "m_error"
    /\ result = "NoEntriesFound"
    /\ output = NoOutput

\* A header-only file was decoded to an empty cache.
C11_WitnessHeaderOnly ==
    /\ stream \in {FileOf(8, 0, <<>>), FileOf(7, 21, <<>>)}
    /\ pc = "done"
    /\ result = "Ok"
    /\ cache.entries = <<>>

(***************************************************************************)
(* C12: strict duplicate detection.  When DxvkStateCache::from_reader      *)
(* reads a valid entry whose 20-byte hash is already in the set, decoding  *)
(* aborts there with DuplicateEntry: no cache is returned and nothing more *)
(* is read.                                                                *)
(***************************************************************************)
StrictMeetsDuplicate ==
    /\ pc = "read_entry"
    /\ NextStreamEntry.kind = "Ok"
    /\ NextStreamEntry.entry.hash = H(cache.header, NextStreamEntry.entry)
    /\ NextStreamEntry.entry.hash \in Range(Hashes(cache.entries))

\* C12: a second valid entry with a hash already stored ends the decode
\* in DuplicateEntry.
C12_StrictDuplicate ==
    [][StrictMeetsDuplicate =>
          /\ pc' = "error"
          /\ result' = "DuplicateEntry"
          /\ cache' = cache]_vars

\* C12 for a duplicate that repeats the payload as well as the hash, which
\* the code detects.
C12_SamePayloadDuplicate ==
    [][(/\ StrictMeetsDuplicate
        /\ \E i \in 1..Len(cache.entries) :
               /\ cache.entries[i].hash = NextStreamEntry.entry.hash
               /\ cache.entries[i].data = NextStreamEntry.entry.data)
       => /\ pc' = "error"
          /\ result' = "DuplicateEntry"
          /\ cache' = cache]_vars

(***************************************************************************)
(* C13: no underflow in the Legacy payload length.  For every Legacy       *)
(* header, entry_size below HASH_SIZE included, entry_size - HASH_SIZE is  *)
(* never computed below zero: such a header gives an error result of the   *)
(* decode, not a panic of the subtraction (debug build) or a wrapped       *)
(* length that panics in the allocation (release build), and entry_size =  *)
(* HASH_SIZE is accepted with an empty payload.                            *)
(***************************************************************************)
EmptyLegacyFile == FileOf(7, 20, <<LegacyEntry(<<>>)>>)

\* C13: no run ends in the panic of the payload-length subtraction, and
\* entry_size = HASH_SIZE decodes to the entry with the empty payload.
C13_NoUnderflow ==
    /\ result # "Panic"
    /\ (stream = EmptyLegacyFile /\ pc = "done")
          => cache.entries = <<LegacyEntry(<<>>)>>
    /\ (files = <<EmptyLegacyFile>> /\ pc = "m_finish")
          => entries = <<LegacyEntry(<<>>)>>

\* The part of C13 that the code keeps: entry_size = HASH_SIZE is accepted.
C13_HashSizeAccepted ==
    /\ (stream = EmptyLegacyFile /\ pc = "done")
          => cache.entries = <<LegacyEntry(<<>>)>>
    /\ (files = <<EmptyLegacyFile>> /\ pc = "m_finish")
          => entries = <<LegacyEntry(<<>>)>>
    /\ result = "Panic" =>
          \/ Codec /\ cache.header.entry_size < HASH_SIZE
          \/ Merge /\ header.entry_size < HASH_SIZE

====
